---- MODULE Spec2Model ----
(***************************************************************************)
(* Authorization engine (AuthorizationServiceBase) and the process-wide    *)
(* cache (CacheUtil) of nagiyu-typescript-common.                          *)
(*                                                                         *)
(* The source holds two definitions of AuthorizationServiceBase: the first *)
(* (lines 13-145) guards comparePermissionLevel against unknown levels and *)
(* has validate; the second (lines 159-323) has the permission cache and   *)
(* an unguarded comparePermissionLevel.  `revision` says which is loaded.  *)
(*                                                                         *)
(* An async method is one action per stretch of code between two awaits;   *)
(* a collaborator (abstract method) answers with any value of its return   *)
(* type, or throws.                                                        *)
(***************************************************************************)
EXTENDS Integers, Sequences, FiniteSets, TLC

VARIABLES revision, pc, op, frame, log, outcome, cache, now, ticks, last,
          tasks, heap, staleKeys, loadedFor

vars == <<revision, pc, op, frame, log, outcome, cache, now, ticks, last,
         tasks, heap, staleKeys, loadedFor>>

----------------------------------------------------------------------------
(* JavaScript values *)

Undefined == "<undefined>"
Null == "<null>"

\* JavaScript truthiness of a string-or-absent value (`if (x)`, `!x`, `x || y`)
Truthy(v) == v \notin {Undefined, Null, ""}

\* Array.prototype.indexOf: 0-based position of the first match, -1 if none
indexOf(arr, x) ==
  IF \E i \in 1..Len(arr) : arr[i] = x
  THEN (CHOOSE i \in 1..Len(arr) : arr[i] = x /\ \A j \in 1..(i - 1) : arr[j] # x) - 1
  ELSE -1

----------------------------------------------------------------------------
(* Enumerations *)

NONE == "none"
VIEW == "view"
EDIT == "edit"
DELETE == "delete"
ADMIN == "admin"

\* Object.values(PermissionLevel)
PermissionLevelValues == {NONE, VIEW, EDIT, DELETE, ADMIN}

\* a string that is no PermissionLevel ('invalid_level' as PermissionLevel)
InvalidLevel == "invalid_level"

\* the requester classes the model calls with (two of the four of UserType)
UserTypes == {"guest", "admin"}

\* capabilities: one the matrices may hold, one no matrix holds
MatrixFeatures == {"resourceA"}
Features == {"resourceA", "nonExistentFeature"}

\* userId?: absent, empty, or a user's id
UserIds == {Undefined, "", "user123"}

\* requiredLevel as callers pass it: not checked by the type system at run time
RequiredLevels == PermissionLevelValues \cup {InvalidLevel}

\* level arguments of validate: also the empty and the missing value
ValidateLevels == PermissionLevelValues \cup {InvalidLevel, "NONE", "", Undefined}

\* arguments of a direct comparePermissionLevel call
CompareLevels == PermissionLevelValues \cup {InvalidLevel}

\* PermissionMatrix: feature -> userType -> PermissionLevel, keys may be missing
MatrixRows == UNION {[S -> PermissionLevelValues] : S \in SUBSET UserTypes}
Matrices == UNION {[F -> MatrixRows] : F \in SUBSET MatrixFeatures}

\* what getCustomPermission resolves to: PermissionLevel | null
CustomPermissions == PermissionLevelValues \cup {Null}

Revisions == {1, 2}

----------------------------------------------------------------------------
(* How a call ends *)

Pending == [kind |-> "pending"]
Returned(v) == [kind |-> "returned", value |-> v]
Threw(e) == [kind |-> "threw", error |-> e]

----------------------------------------------------------------------------
(* AuthorizationServiceBase: pure parts *)

\* mutant: EDIT and DELETE change places in the hierarchy
LEVEL_HIERARCHY_misordered == <<NONE, VIEW, DELETE, EDIT, ADMIN>>

LEVEL_HIERARCHY == <<NONE, VIEW, EDIT, DELETE, ADMIN>>

\* first definition: unknown levels compare false
comparePermissionLevel(userLevel, requiredLevel) ==
  LET userLevelIndex == indexOf(LEVEL_HIERARCHY, userLevel)
      requiredLevelIndex == indexOf(LEVEL_HIERARCHY, requiredLevel)
  IN  IF userLevelIndex = -1 \/ requiredLevelIndex = -1
      THEN FALSE
      ELSE userLevelIndex >= requiredLevelIndex

\* second definition: the indexes are compared as they come
comparePermissionLevel_2(userLevel, requiredLevel) ==
  LET userLevelIndex == indexOf(LEVEL_HIERARCHY, userLevel)
      requiredLevelIndex == indexOf(LEVEL_HIERARCHY, requiredLevel)
  IN  userLevelIndex >= requiredLevelIndex

\* this.comparePermissionLevel of the definition that is loaded
this_comparePermissionLevel(rev, userLevel, requiredLevel) ==
  IF rev = 1
  THEN comparePermissionLevel(userLevel, requiredLevel)
  ELSE comparePermissionLevel_2(userLevel, requiredLevel)

\* permissionMatrix[feature]?.[userType]
matrixEntry(permissionMatrix, feature, userType) ==
  IF feature \in DOMAIN permissionMatrix
  THEN IF userType \in DOMAIN permissionMatrix[feature]
       THEN permissionMatrix[feature][userType]
       ELSE Undefined
  ELSE Undefined

\* mutant: the matrix is indexed by userType first, then by feature
userPermission_keysSwapped(permissionMatrix, feature, userType) ==
  LET entry == matrixEntry(permissionMatrix, userType, feature)
  IN  IF Truthy(entry) THEN entry ELSE NONE

\* permissionMatrix[feature]?.[userType] || PermissionLevel.NONE
userPermission(permissionMatrix, feature, userType) ==
  LET entry == matrixEntry(permissionMatrix, feature, userType)
  IN  IF Truthy(entry) THEN entry ELSE NONE

\* mutant: the userId counts as given unless it is undefined
userIdGiven_definedOnly(userId) == userId # Undefined

\* if (userId)
userIdGiven(userId) == Truthy(userId)

\* mutant: `if (customPermission && customPermission !== NONE)`, NONE read as unset
customPermissionSet_noneIsUnset(customPermission) == customPermission \notin {Null, NONE}

\* if (customPermission !== null)
customPermissionSet(customPermission) == customPermission # Null

\* mutant: the two arguments of the comparison change places
customDecision_swapped(rev, customPermission, requiredLevel) ==
  this_comparePermissionLevel(rev, requiredLevel, customPermission)

\* return this.comparePermissionLevel(customPermission, requiredLevel)
customDecision(rev, customPermission, requiredLevel) ==
  this_comparePermissionLevel(rev, customPermission, requiredLevel)

\* mutant: permissionMatrix[feature][userType] without the optional chaining
matrixDecision_unchained(rev, permissionMatrix, feature, userType, requiredLevel) ==
  IF feature \notin DOMAIN permissionMatrix
  THEN Threw("TypeError")
  ELSE Returned(this_comparePermissionLevel(rev,
                  userPermission(permissionMatrix, feature, userType), requiredLevel))

\* const userPermission = ...; return this.comparePermissionLevel(userPermission, requiredLevel)
matrixDecision(rev, permissionMatrix, feature, userType, requiredLevel) ==
  Returned(this_comparePermissionLevel(rev, userPermission(permissionMatrix, feature, userType),
                                       requiredLevel))

\* mutant: authorize forgets to pass the userId on
authorizeArgs_noUserId(userType, feature, requiredLevel, userId) ==
  [userType |-> userType, feature |-> feature,
   requiredLevel |-> requiredLevel, userId |-> Undefined]

\* return this.hasPermission(userType, feature, requiredLevel, userId)
authorizeArgs(userType, feature, requiredLevel, userId) ==
  [userType |-> userType, feature |-> feature,
   requiredLevel |-> requiredLevel, userId |-> userId]

\* mutant: only the missing value is rejected
validateRejects_onlyMissing(level) == ~Truthy(level)

\* !level || !Object.values(PermissionLevel).includes(level)
validateRejects(level) == ~Truthy(level) \/ level \notin PermissionLevelValues

----------------------------------------------------------------------------
(* The record of a call: its frame and the collaborator calls it made *)

\* mutant: a catch around the await turns the rejection into a denial
awaitRejected_denies(fn) == Returned(FALSE)

\* an awaited collaborator rejects: no try/catch, the rejection is the call's
awaitRejected(fn) == Threw(fn)

NoFrame == [userType |-> Undefined, feature |-> Undefined,
            requiredLevel |-> Undefined, userId |-> Undefined]

\* the parameters of a direct comparePermissionLevel call
CompareFrame(userLevel, requiredLevel) ==
  [userLevel |-> userLevel, requiredLevel |-> requiredLevel]

\* the public method a caller invoked, with its arguments
Entry(name, args) == [name |-> name, args |-> args]
NoEntry == Entry("none", <<>>)

Event(fn, args, ret) == [fn |-> fn, args |-> args, ret |-> ret]

\* no call of the engine is in flight: the next one may start
Free == pc = "idle"

Collaborators == {"getUserType", "getUserId", "getCustomPermission", "getPermissionMatrix"}

\* the arguments the pending collaborator call was made with
PendingArgs ==
  IF pc = "getCustomPermission" THEN <<frame.userId, frame.feature>> ELSE <<>>

----------------------------------------------------------------------------
(* AuthorizationServiceBase: the calls, one action per stretch between awaits *)

\* hasPermission up to its first await
EnterHasPermission(args) ==
  /\ frame' = args
  /\ pc' = IF userIdGiven(args.userId) THEN "getCustomPermission" ELSE "getPermissionMatrix"

HasPermission(userType, feature, requiredLevel, userId) ==
  /\ Free
  /\ op' = Entry("hasPermission", <<userType, feature, requiredLevel, userId>>)
  /\ log' = <<>>
  /\ outcome' = Pending
  /\ EnterHasPermission([userType |-> userType, feature |-> feature,
                         requiredLevel |-> requiredLevel, userId |-> userId])
  /\ UNCHANGED <<tasks, heap, staleKeys, loadedFor, revision, cache, now, ticks, last>>

\* await this.getCustomPermission(userId, feature) resolves
GetCustomPermissionReturns(customPermission) ==
  /\ pc = "getCustomPermission"
  /\ log' = Append(log, Event("getCustomPermission", PendingArgs, Returned(customPermission)))
  /\ IF customPermissionSet(customPermission)
     THEN /\ outcome' = Returned(customDecision(revision, customPermission, frame.requiredLevel))
          /\ pc' = "done"
     ELSE /\ outcome' = outcome
          /\ pc' = "getPermissionMatrix"
  /\ UNCHANGED <<tasks, heap, staleKeys, loadedFor, revision, op, frame, cache, now, ticks, last>>

\* mutant: the engine empties the cache when it has read the matrix
GetPermissionMatrixReturns_clearsCache(permissionMatrix) ==
  /\ pc = "getPermissionMatrix"
  /\ log' = Append(log, Event("getPermissionMatrix", PendingArgs, Returned(permissionMatrix)))
  /\ outcome' = matrixDecision(revision, permissionMatrix, frame.feature,
                               frame.userType, frame.requiredLevel)
  /\ pc' = "done"
  /\ cache' = <<>>
  /\ heap' = <<>>
  /\ loadedFor' = <<>>
  /\ staleKeys' = {}
  /\ UNCHANGED <<tasks, revision, op, frame, now, ticks, last>>

\* await this.getPermissionMatrix() resolves
GetPermissionMatrixReturns(permissionMatrix) ==
  /\ pc = "getPermissionMatrix"
  /\ log' = Append(log, Event("getPermissionMatrix", PendingArgs, Returned(permissionMatrix)))
  /\ outcome' = matrixDecision(revision, permissionMatrix, frame.feature,
                               frame.userType, frame.requiredLevel)
  /\ pc' = "done"
  /\ UNCHANGED <<tasks, heap, staleKeys, loadedFor, revision, op, frame, cache, now, ticks, last>>

\* authorize up to its first await
Authorize(feature, requiredLevel) ==
  /\ Free
  /\ op' = Entry("authorize", <<feature, requiredLevel>>)
  /\ log' = <<>>
  /\ outcome' = Pending
  /\ frame' = [NoFrame EXCEPT !.feature = feature, !.requiredLevel = requiredLevel]
  /\ pc' = "getUserType"
  /\ UNCHANGED <<tasks, heap, staleKeys, loadedFor, revision, cache, now, ticks, last>>

\* await this.getUserType() resolves
GetUserTypeReturns(userType) ==
  /\ pc = "getUserType"
  /\ log' = Append(log, Event("getUserType", PendingArgs, Returned(userType)))
  /\ frame' = [frame EXCEPT !.userType = userType]
  /\ pc' = "getUserId"
  /\ UNCHANGED <<tasks, heap, staleKeys, loadedFor, revision, op, outcome, cache, now, ticks, last>>

\* await this.getUserId() resolves; authorize calls hasPermission
GetUserIdReturns(userId) ==
  /\ pc = "getUserId"
  /\ log' = Append(log, Event("getUserId", PendingArgs, Returned(userId)))
  /\ EnterHasPermission(authorizeArgs(frame.userType, frame.feature,
                                      frame.requiredLevel, userId))
  /\ UNCHANGED <<tasks, heap, staleKeys, loadedFor, revision, op, outcome, cache, now, ticks, last>>

\* the awaited collaborator rejects
AwaitRejects(fn) ==
  /\ pc = fn
  /\ log' = Append(log, Event(fn, PendingArgs, Threw(fn)))
  /\ outcome' = awaitRejected(fn)
  /\ pc' = "done"
  /\ UNCHANGED <<tasks, heap, staleKeys, loadedFor, revision, op, frame, cache, now, ticks, last>>

\* validate (first definition only)
Validate(feature, level) ==
  /\ Free
  /\ revision = 1
  /\ op' = Entry("validate", <<feature, level>>)
  /\ log' = <<>>
  /\ frame' = [NoFrame EXCEPT !.feature = feature, !.requiredLevel = level]
  /\ outcome' = IF validateRejects(level) THEN Threw("BadRequestError") ELSE Returned(Undefined)
  /\ pc' = "done"
  /\ UNCHANGED <<tasks, heap, staleKeys, loadedFor, revision, cache, now, ticks, last>>

\* a subclass calls comparePermissionLevel
ComparePermissionLevel(userLevel, requiredLevel) ==
  /\ Free
  /\ op' = Entry("comparePermissionLevel", <<userLevel, requiredLevel>>)
  /\ log' = <<>>
  /\ frame' = CompareFrame(userLevel, requiredLevel)
  /\ outcome' = Returned(this_comparePermissionLevel(revision, userLevel, requiredLevel))
  /\ pc' = "done"
  /\ UNCHANGED <<tasks, heap, staleKeys, loadedFor, revision, cache, now, ticks, last>>

\* the caller's await settles: it takes the outcome and the call's frame is gone
Settle ==
  /\ pc = "done"
  /\ pc' = "idle"
  /\ op' = NoEntry
  /\ frame' = NoFrame
  /\ log' = <<>>
  /\ outcome' = Pending
  /\ UNCHANGED <<tasks, heap, staleKeys, loadedFor, revision, cache, now, ticks, last>>

NoCacheOp == [op |-> "none"]

\* the callers that may have a getUserPermissions in flight at the same time
Callers == {"caller1", "caller2"}

\* a caller with no call in flight
Idle == [pc |-> "idle"]

EmptyCache == <<>>

InitEngine ==
  /\ revision \in Revisions
  /\ pc = "idle"
  /\ op = NoEntry
  /\ frame = NoFrame
  /\ log = <<>>
  /\ outcome = Pending
  /\ cache = EmptyCache
  /\ tasks = [c \in Callers |-> Idle]
  /\ heap = <<>>
  /\ staleKeys = {}
  /\ loadedFor = <<>>
  /\ now = 0
  /\ ticks = 0
  /\ last = NoCacheOp

NextEngine ==
  \/ \E t \in UserTypes, f \in Features, r \in RequiredLevels, u \in UserIds :
        HasPermission(t, f, r, u)
  \/ \E c \in CustomPermissions : GetCustomPermissionReturns(c)
  \/ \E m \in Matrices : GetPermissionMatrixReturns(m)
  \/ \E f \in Features, r \in RequiredLevels : Authorize(f, r)
  \/ \E t \in UserTypes : GetUserTypeReturns(t)
  \/ \E u \in UserIds : GetUserIdReturns(u)
  \/ \E fn \in Collaborators : AwaitRejects(fn)
  \/ \E f \in Features, l \in ValidateLevels : Validate(f, l)
  \/ \E a \in CompareLevels, b \in CompareLevels : ComparePermissionLevel(a, b)
  \/ Settle

SpecEngine == InitEngine /\ [][NextEngine]_vars

----------------------------------------------------------------------------
(* CacheUtil: the static cache.  A string is the sequence of its pieces, so    *)
(* that startsWith is computed; the clock is Date.now(), in milliseconds.      *)

MaxTicks == 1

\* the keys callers use
CacheKeys == {<<"user_permissions_", "1">>, <<"user_permissions_", "1", "0">>,
              <<"user_settings_", "1">>}

\* the prefixes callers clear by
CachePrefixes == {<<>>, <<"user_permissions_">>, <<"user_permissions_", "1">>,
                  <<"user_settings_", "2">>}

CacheValues == {"value1", "value2"}

\* ttl?: omitted (the empty tuple) or a number of seconds
TtlArgs == {<<>>, <<0>>, <<300>>}

\* how far the clock moves between two operations, in milliseconds
Advances == {300000, 600000}

CACHE_TTL == 10 * 60 * 1000

\* mutant: `===` for startsWith
startsWith_equal(key, prefix) == key = prefix

\* key.startsWith(prefix)
startsWith(key, prefix) ==
  /\ Len(prefix) <= Len(key)
  /\ SubSeq(key, 1, Len(prefix)) = prefix

\* cacheData.ttl !== undefined ? cacheData.ttl * 1000 : this.CACHE_TTL
entryTtl(cacheData) ==
  IF "ttl" \in DOMAIN cacheData THEN cacheData.ttl * 1000 ELSE CACHE_TTL

\* mutant: a get that finds a live entry renews its timestamp
getLeaves_renews(c, t, key) ==
  IF key \notin DOMAIN c THEN c
  ELSE IF t - c[key].timestamp < (IF "ttl" \in DOMAIN c[key] THEN c[key].ttl * 1000 ELSE 600000)
       THEN [c EXCEPT ![key].timestamp = t]
       ELSE [k \in DOMAIN c \ {key} |-> c[k]]

\* mutant: `<=` for `<`
entryValid_inclusive(cacheData, t) == t - cacheData.timestamp <= entryTtl(cacheData)

\* Date.now() - cacheData.timestamp < ttl
entryValid(cacheData, t) == t - cacheData.timestamp < entryTtl(cacheData)

\* mutant: the delete resets the whole store
without_resets(c, keys) == IF keys = {} THEN c ELSE <<>>

\* delete this.cache[key]
without(c, keys) == [k \in DOMAIN c \ keys |-> c[k]]

\* mutant: the ttl is stored in milliseconds
newEntry_ttlInMs(value, t, ttlArg) ==
  IF ttlArg # <<>>
  THEN [value |-> value, timestamp |-> t, ttl |-> ttlArg[1] \div 1000]
  ELSE [value |-> value, timestamp |-> t]

\* mutant: the timestamp is the time the class was loaded, not Date.now()
newEntry_clockAtLoad(value, t, ttlArg) ==
  IF ttlArg # <<>>
  THEN [value |-> value, timestamp |-> 0, ttl |-> ttlArg[1]]
  ELSE [value |-> value, timestamp |-> 0]

\* mutant: a falsy ttl is dropped, `ttl && { ttl }`
newEntry_truthyTtl(value, t, ttlArg) ==
  IF ttlArg # <<>> /\ ttlArg[1] # 0
  THEN [value |-> value, timestamp |-> t, ttl |-> ttlArg[1]]
  ELSE [value |-> value, timestamp |-> t]

\* { value, timestamp: Date.now(), ...(ttl !== undefined && { ttl }) }
newEntry(value, t, ttlArg) ==
  IF ttlArg # <<>>
  THEN [value |-> value, timestamp |-> t, ttl |-> ttlArg[1]]
  ELSE [value |-> value, timestamp |-> t]

\* what get(key) returns
getReturns(c, t, key) ==
  IF key \notin DOMAIN c
  THEN Null
  ELSE IF entryValid(c[key], t) THEN c[key].value ELSE Null

\* the cache get(key) leaves
getLeaves(c, t, key) ==
  IF key \in DOMAIN c /\ ~entryValid(c[key], t) THEN without(c, {key}) ELSE c

\* what get(key) remembers of the operation before it: a set of the same key
Prior(key) ==
  IF last.op = "set" /\ last.key = key
  THEN [op |-> "set", key |-> key, value |-> last.value, ttl |-> last.ttl, at |-> last.at]
  ELSE [op |-> "other"]

CacheGet(key) ==
  /\ cache' = getLeaves(cache, now, key)
  /\ last' = [op |-> "get", key |-> key, ret |-> getReturns(cache, now, key),
              at |-> now, prior |-> Prior(key)]
  /\ UNCHANGED <<tasks, heap, staleKeys, loadedFor, revision, pc, op, frame, log, outcome, now, ticks>>

\* a set that gives no ttl finds an entry with a ttl under its key
ttlDropped(c, key, ttlArg) == ttlArg = <<>> /\ key \in DOMAIN c /\ "ttl" \in DOMAIN c[key]

\* mutant: the new entry is merged into the one that is there, `{ ...this.cache[key], ... }`
CacheSet_merges(key, value, ttlArg) ==
  /\ cache' = [k \in DOMAIN cache \cup {key} |->
                 IF k # key THEN cache[k]
                 ELSE IF ttlDropped(cache, key, ttlArg)
                      THEN [value |-> value, timestamp |-> now, ttl |-> cache[key].ttl]
                      ELSE newEntry(value, now, ttlArg)]
  /\ last' = [op |-> "set", key |-> key, value |-> value, ttl |-> ttlArg, at |-> now,
              ttlDropped |-> ttlDropped(cache, key, ttlArg)]
  /\ UNCHANGED <<tasks, heap, staleKeys, loadedFor, revision, pc, op, frame, log, outcome, now, ticks>>

CacheSet(key, value, ttlArg) ==
  /\ cache' = [k \in DOMAIN cache \cup {key} |->
                 IF k = key THEN newEntry(value, now, ttlArg) ELSE cache[k]]
  /\ last' = [op |-> "set", key |-> key, value |-> value, ttl |-> ttlArg, at |-> now,
              ttlDropped |-> ttlDropped(cache, key, ttlArg)]
  /\ UNCHANGED <<tasks, heap, staleKeys, loadedFor, revision, pc, op, frame, log, outcome, now, ticks>>

CacheClear(key) ==
  /\ cache' = without(cache, {key})
  /\ last' = [op |-> "clear", key |-> key, removed |-> {key} \cap DOMAIN cache]
  /\ UNCHANGED <<tasks, heap, staleKeys, loadedFor, revision, pc, op, frame, log, outcome, now, ticks>>

CacheDelete(key) ==
  /\ cache' = without(cache, {key})
  /\ last' = [op |-> "delete", key |-> key, removed |-> {key} \cap DOMAIN cache]
  /\ UNCHANGED <<tasks, heap, staleKeys, loadedFor, revision, pc, op, frame, log, outcome, now, ticks>>

CacheClearByPrefix(prefix) ==
  /\ cache' = without(cache, {key \in DOMAIN cache : startsWith(key, prefix)})
  /\ last' = [op |-> "clearByPrefix", prefix |-> prefix,
              removed |-> {key \in DOMAIN cache : startsWith(key, prefix)}]
  /\ UNCHANGED <<tasks, heap, staleKeys, loadedFor, revision, pc, op, frame, log, outcome, now, ticks>>

\* time passes between two operations
Tick(d) ==
  /\ ticks < MaxTicks
  /\ ticks' = ticks + 1
  /\ now' = now + d
  /\ last' = [op |-> "tick"]
  /\ UNCHANGED <<tasks, heap, staleKeys, loadedFor, revision, pc, op, frame, log, outcome, cache>>

\* the system clock is set back, to the time of the first operation
ClockBack ==
  /\ now > 0
  /\ now' = 0
  /\ last' = [op |-> "clock back"]
  /\ UNCHANGED <<tasks, heap, staleKeys, loadedFor, revision, pc, op, frame, log, outcome, cache, ticks>>

\* the cache is used by the second definition of the service
InitCache ==
  /\ InitEngine
  /\ revision = 2

NextCache ==
  \/ \E k \in CacheKeys : CacheGet(k)
  \/ \E k \in CacheKeys, v \in CacheValues, ttl \in TtlArgs : CacheSet(k, v, ttl)
  \/ \E k \in CacheKeys : CacheClear(k)
  \/ \E k \in CacheKeys : CacheDelete(k)
  \/ \E p \in CachePrefixes : CacheClearByPrefix(p)
  \/ \E d \in Advances : Tick(d)
  \/ ClockBack

SpecCache == InitCache /\ [][NextCache]_vars

----------------------------------------------------------------------------
(* The permission cache of the service: getUserPermissions, clearCache *)

\* the Map objects there are to create: one for each key of the service and one more
ObjectIds == {"map1", "map2", "map3"}

\* the users whose permissions are read; the id of the second begins with the first
PermissionUserIds == {<<"1">>, <<"1", "0">>}

\* clearCache's userId?: omitted or empty (the empty tuple), or a user
ClearArgs == {<<>>} \cup PermissionUserIds

\* the levels loadUserPermissions grants on a feature
LoadedLevels == {VIEW}

\* the levels a caller writes into a Map it was given
WrittenLevels == {ADMIN}

\* how far the clock moves between two operations of the service, in milliseconds
ServiceAdvances == {299999, 300000}

\* a key of the cache that is not the service's
SettingsKey == <<"user_settings_", "1">>

\* what is stored under it
SettingsValue == "value1"

CACHE_PREFIX == <<"user_permissions_">>

SERVICE_CACHE_TTL == 300

\* mutant: the key is made of the first character of the userId
cacheKeyOf_firstCharacter(userId) == CACHE_PREFIX \o <<userId[1]>>

\* `${AuthorizationServiceBase.CACHE_PREFIX}${userId}`
cacheKeyOf(userId) == CACHE_PREFIX \o userId

\* new Map(), then permissions.set(feature, level) for each feature
newMap(level) == [f \in MatrixFeatures |-> level]

\* map.set(feature, level)
mapSet(map, feature, level) ==
  [f \in DOMAIN map \cup {feature} |-> IF f = feature THEN level ELSE map[f]]

\* the object a `new Map()` creates: one that is not on the heap yet
freshObject == CHOOSE o \in ObjectIds : o \notin DOMAIN heap

\* the heap without the Maps that no entry of the cache c refers to: a Map that left
\* the cache is read by no later call
collect(h, c) == [o \in {p \in DOMAIN h : \E k \in DOMAIN c : c[k].value = p} |-> h[o]]

\* mutant: the cached value is never used
cacheHit_never(cached) == FALSE

\* if (cached)
cacheHit(cached) == Truthy(cached)

\* mutant: clearCache(userId) clears by the prefix CACHE_PREFIX + userId
clearCacheLeaves_byPrefix(c, userId) ==
  without(c, {key \in DOMAIN c : startsWith(key, cacheKeyOf(userId))})

\* mutant: clearCache() empties the whole cache
clearCacheLeaves_resets(c, userId) ==
  IF userId # <<>> THEN without(c, {cacheKeyOf(userId)}) ELSE EmptyCache

\* mutant: clearCache(userId) ignores the userId and clears every user's permissions
clearCacheLeaves_allUsers(c, userId) ==
  without(c, {key \in DOMAIN c : startsWith(key, CACHE_PREFIX)})

\* the cache clearCache(userId) leaves: `if (userId)` delete the user's key, else
\* clearByPrefix(CACHE_PREFIX)
clearCacheLeaves(c, userId) ==
  IF userId # <<>>
  THEN without(c, {cacheKeyOf(userId)})
  ELSE without(c, {key \in DOMAIN c : startsWith(key, CACHE_PREFIX)})

\* getUserPermissions(userId), up to its return from the cache or its await of
\* loadUserPermissions(userId)
GetUserPermissions(c, userId) ==
  LET cacheKey == cacheKeyOf(userId)
      cached == getReturns(cache, now, cacheKey)
  IN /\ tasks[c] = Idle
     /\ cache' = getLeaves(cache, now, cacheKey)
     /\ heap' = collect(heap, cache')
     /\ loadedFor' = collect(loadedFor, cache')
     /\ staleKeys' = staleKeys \cap DOMAIN cache'
     /\ IF cacheHit(cached)
        THEN /\ tasks' = tasks
             /\ last' = [op |-> "getUserPermissions", caller |-> c, userId |-> userId,
                         kind |-> "returned", ret |-> cached]
        ELSE /\ tasks' = [tasks EXCEPT ![c] =
                            [pc |-> "loading", userId |-> userId, outdated |-> FALSE,
                             evicted |-> cacheKey \in DOMAIN cache]]
             /\ last' = [op |-> "getUserPermissions", caller |-> c, userId |-> userId,
                         kind |-> "awaiting"]
     /\ UNCHANGED <<revision, pc, op, frame, log, outcome, now, ticks>>

\* the cache with cacheKey set to permissions for SERVICE_CACHE_TTL seconds
withPermissions(c, t, cacheKey, permissions) ==
  [k \in DOMAIN c \cup {cacheKey} |->
     IF k = cacheKey THEN newEntry(permissions, t, <<SERVICE_CACHE_TTL>>) ELSE c[k]]

\* loadUserPermissions(userId) resolves with a new Map; getUserPermissions stores it and
\* returns it
LoadUserPermissionsReturns(c, level) ==
  LET cacheKey == cacheKeyOf(tasks[c].userId)
      permissions == freshObject
  IN /\ tasks[c] # Idle
     /\ cache' = withPermissions(cache, now, cacheKey, permissions)
     /\ heap' = collect([o \in DOMAIN heap \cup {permissions} |->
                           IF o = permissions THEN newMap(level) ELSE heap[o]], cache')
     /\ loadedFor' = collect([o \in DOMAIN loadedFor \cup {permissions} |->
                                IF o = permissions THEN tasks[c].userId ELSE loadedFor[o]],
                             cache')
     /\ tasks' = [tasks EXCEPT ![c] = Idle]
     /\ staleKeys' = IF tasks[c].outdated
                     THEN staleKeys \cup {cacheKey}
                     ELSE staleKeys \ {cacheKey}
     /\ last' = [op |-> "loadUserPermissions", caller |-> c, userId |-> tasks[c].userId,
                 kind |-> "returned", ret |-> permissions]
     /\ UNCHANGED <<revision, pc, op, frame, log, outcome, now, ticks>>

\* mutant: a failed load drops the entry of the user
LoadUserPermissionsRejects_dropsEntry(c) ==
  /\ tasks[c] # Idle
  /\ tasks' = [tasks EXCEPT ![c] = Idle]
  /\ cache' = without(cache, {cacheKeyOf(tasks[c].userId)})
  /\ heap' = collect(heap, cache')
  /\ loadedFor' = collect(loadedFor, cache')
  /\ staleKeys' = staleKeys \cap DOMAIN cache'
  /\ last' = [op |-> "loadUserPermissions", caller |-> c, userId |-> tasks[c].userId,
              kind |-> "threw", evicted |-> tasks[c].evicted]
  /\ UNCHANGED <<revision, pc, op, frame, log, outcome, now, ticks>>

\* loadUserPermissions(userId) rejects and so does getUserPermissions
LoadUserPermissionsRejects(c) ==
  /\ tasks[c] # Idle
  /\ tasks' = [tasks EXCEPT ![c] = Idle]
  /\ last' = [op |-> "loadUserPermissions", caller |-> c, userId |-> tasks[c].userId,
              kind |-> "threw", evicted |-> tasks[c].evicted]
  /\ UNCHANGED <<heap, loadedFor, staleKeys, cache, revision, pc, op, frame, log, outcome, now, ticks>>

\* a load that was awaited when clearCache(userId) ran began before that invalidation
outdatedBy(task, userId) ==
  IF task # Idle /\ (userId = <<>> \/ task.userId = userId)
  THEN [task EXCEPT !.outdated = TRUE]
  ELSE task

ClearCache(userId) ==
  /\ cache' = clearCacheLeaves(cache, userId)
  /\ heap' = collect(heap, cache')
  /\ loadedFor' = collect(loadedFor, cache')
  /\ tasks' = [c \in Callers |-> outdatedBy(tasks[c], userId)]
  /\ staleKeys' = staleKeys \cap DOMAIN cache'
  /\ last' = [op |-> "clearCache", userId |-> userId,
              removed |-> DOMAIN cache \ DOMAIN cache']
  /\ UNCHANGED <<revision, pc, op, frame, log, outcome, now, ticks>>

\* a caller writes into a Map that getUserPermissions returned to it
MutateReturned(permissions, feature, level) ==
  /\ permissions \in DOMAIN heap
  /\ heap' = [heap EXCEPT ![permissions] = mapSet(@, feature, level)]
  /\ last' = [op |-> "mutate", object |-> permissions]
  /\ UNCHANGED <<tasks, staleKeys, loadedFor, cache, revision, pc, op, frame, log, outcome,
                 now, ticks>>

InitPermissions == InitCache

NextPermissions ==
  \/ \E c \in Callers, u \in PermissionUserIds : GetUserPermissions(c, u)
  \/ \E c \in Callers, l \in LoadedLevels : LoadUserPermissionsReturns(c, l)
  \/ \E c \in Callers : LoadUserPermissionsRejects(c)
  \/ \E u \in ClearArgs : ClearCache(u)
  \/ \E o \in ObjectIds, f \in MatrixFeatures, l \in WrittenLevels : MutateReturned(o, f, l)
  \/ CacheSet(SettingsKey, SettingsValue, <<>>)
  \/ \E d \in ServiceAdvances : Tick(d)

SpecPermissions == InitPermissions /\ [][NextPermissions]_vars

----------------------------------------------------------------------------
(* The engine's calls while the permission cache is in use *)

\* the caller and the user whose permissions are cached meanwhile
CachingCaller == "caller1"
CachedUserId == <<"1">>

InitService == InitCache

NextService ==
  \/ \E t \in UserTypes, f \in Features, r \in RequiredLevels, u \in UserIds :
        HasPermission(t, f, r, u)
  \/ \E c \in CustomPermissions : GetCustomPermissionReturns(c)
  \/ \E m \in Matrices : GetPermissionMatrixReturns(m)
  \/ \E f \in Features, r \in RequiredLevels : Authorize(f, r)
  \/ \E t \in UserTypes : GetUserTypeReturns(t)
  \/ \E u \in UserIds : GetUserIdReturns(u)
  \/ \E fn \in Collaborators : AwaitRejects(fn)
  \/ Settle
  \/ GetUserPermissions(CachingCaller, CachedUserId)
  \/ \E l \in LoadedLevels : LoadUserPermissionsReturns(CachingCaller, l)

SpecService == InitService /\ [][NextService]_vars

----------------------------------------------------------------------------
(* Reading the record of a call *)

Calls(fn) == {i \in DOMAIN log : log[i].fn = fn}
WasCalled(fn) == Calls(fn) # {}
EventOf(fn) == log[CHOOSE i \in Calls(fn) : TRUE]
Resolved(fn) == WasCalled(fn) /\ EventOf(fn).ret.kind = "returned"
ValueOf(fn) == EventOf(fn).ret.value

\* a hasPermission call (direct, or through authorize) has ended
Decided == pc = "done" /\ op.name \in {"hasPermission", "authorize"}

\* getCustomPermission(u, c) returned a level for the non-empty userId of the call
OverrideReturned ==
  /\ Decided
  /\ Truthy(frame.userId)
  /\ Resolved("getCustomPermission")
  /\ EventOf("getCustomPermission").args = <<frame.userId, frame.feature>>
  /\ ValueOf("getCustomPermission") \in PermissionLevelValues

\* no userId was given, or getCustomPermission returned null; the matrix was returned
NoOverride ==
  /\ Decided
  /\ \/ ~Truthy(frame.userId)
     \/ Resolved("getCustomPermission") /\ ValueOf("getCustomPermission") = Null
  /\ Resolved("getPermissionMatrix")

\* the matrix entry for (feature, userType), or NONE when that entry is missing
EntryOrNone(matrix, feature, userType) ==
  IF feature \in DOMAIN matrix /\ userType \in DOMAIN matrix[feature]
  THEN matrix[feature][userType]
  ELSE NONE

\* position in the fixed sequence NONE, VIEW, EDIT, DELETE, ADMIN
Position(level) ==
  CASE level = NONE -> 0
    [] level = VIEW -> 1
    [] level = EDIT -> 2
    [] level = DELETE -> 3
    [] level = ADMIN -> 4

AboveNone == PermissionLevelValues \ {NONE}

----------------------------------------------------------------------------
(* Claims *)

\* C1: override precedence.  When getCustomPermission(u, c) returns a level X
\* (NONE included) for a non-empty userId u, hasPermission(class, c, required, u)
\* returns comparePermissionLevel(X, required), whatever the class and the matrix.
C1_OverridePrecedence ==
  OverrideReturned =>
    outcome = Returned(this_comparePermissionLevel(revision,
                         ValueOf("getCustomPermission"), frame.requiredLevel))

\* C1 witness: the override grants ADMIN to a guest, who is let in at ADMIN
C1_Witness ==
  /\ OverrideReturned
  /\ op.name = "hasPermission"
  /\ frame.userType = "guest"
  /\ frame.requiredLevel = ADMIN
  /\ ValueOf("getCustomPermission") = ADMIN
  /\ outcome = Returned(TRUE)

\* C2: matrix fallback.  With no userId, or with getCustomPermission returning
\* null, hasPermission returns comparePermissionLevel(L, required), L being the
\* matrix entry for (c, class), or NONE when that entry is missing.
C2_MatrixFallback ==
  NoOverride =>
    outcome = Returned(this_comparePermissionLevel(revision,
                         EntryOrNone(ValueOf("getPermissionMatrix"), frame.feature,
                                     frame.userType),
                         frame.requiredLevel))

\* C2 witness: a user with no override is let in by the matrix entry of the class
C2_Witness ==
  /\ NoOverride
  /\ Truthy(frame.userId)
  /\ frame.feature \in DOMAIN ValueOf("getPermissionMatrix")
  /\ frame.userType \in DOMAIN ValueOf("getPermissionMatrix")[frame.feature]
  /\ ValueOf("getPermissionMatrix")[frame.feature][frame.userType] = VIEW
  /\ frame.requiredLevel = VIEW
  /\ outcome = Returned(TRUE)

\* the capability, or the class for that capability, is not in the returned matrix
EntryMissing ==
  /\ NoOverride
  /\ \/ frame.feature \notin DOMAIN ValueOf("getPermissionMatrix")
     \/ frame.userType \notin DOMAIN ValueOf("getPermissionMatrix")[frame.feature]

\* C3: deny by default.  When the capability is absent from the matrix, or the
\* class is absent for it, the call raises nothing and, with no override, returns
\* false for every required level above NONE.
C3_DenyByDefault ==
  EntryMissing =>
    /\ outcome.kind = "returned"
    /\ frame.requiredLevel \in AboveNone => outcome = Returned(FALSE)

\* C3 witness: a capability no matrix holds is asked for at VIEW and denied
C3_Witness ==
  /\ EntryMissing
  /\ frame.feature = "nonExistentFeature"
  /\ frame.requiredLevel = VIEW
  /\ outcome = Returned(FALSE)

\* a direct comparePermissionLevel call has returned
Compared == pc = "done" /\ op.name = "comparePermissionLevel"

\* C4: fail-closed comparison.  comparePermissionLevel returns false whenever
\* userLevel or requiredLevel is not one of the five defined levels.
C4_FailClosed ==
  (/\ Compared
   /\ \/ frame.userLevel \notin PermissionLevelValues
      \/ frame.requiredLevel \notin PermissionLevelValues)
  => outcome = Returned(FALSE)

\* C5: on the five levels comparePermissionLevel(L1, L2) is true exactly when the
\* position of L1 in NONE, VIEW, EDIT, DELETE, ADMIN is at least that of L2.
C5_Ordering ==
  (/\ Compared
   /\ frame.userLevel \in PermissionLevelValues
   /\ frame.requiredLevel \in PermissionLevelValues)
  => outcome = Returned(Position(frame.userLevel) >= Position(frame.requiredLevel))

\* C5 witness: DELETE satisfies EDIT
C5_Witness ==
  /\ Compared
  /\ frame.userLevel = DELETE
  /\ frame.requiredLevel = EDIT
  /\ outcome = Returned(TRUE)

\* C6: an explicit NONE override denies every level above NONE, whatever the class;
\* an absent override (null) leaves the decision to the matrix.
C6_NoneOverrideBlocks ==
  /\ (OverrideReturned /\ ValueOf("getCustomPermission") = NONE
        /\ frame.requiredLevel \in AboveNone)
     => outcome = Returned(FALSE)
  /\ (Decided /\ Resolved("getCustomPermission") /\ ValueOf("getCustomPermission") = Null)
     => /\ WasCalled("getPermissionMatrix")
        /\ Resolved("getPermissionMatrix") =>
             outcome = matrixDecision(revision, ValueOf("getPermissionMatrix"),
                                      frame.feature, frame.userType, frame.requiredLevel)

\* C6 witness: an admin with a NONE override is denied VIEW
C6_Witness ==
  /\ OverrideReturned
  /\ ValueOf("getCustomPermission") = NONE
  /\ frame.userType = "admin"
  /\ frame.requiredLevel = VIEW
  /\ outcome = Returned(FALSE)

\* C7: a collaborator failure ends the call with that failure: it is the last
\* thing the call did, and the call yields no boolean.
C7_FailurePropagates ==
  \A i \in DOMAIN log :
    log[i].ret.kind = "threw" =>
      /\ pc = "done"
      /\ i = Len(log)
      /\ outcome = Threw(log[i].fn)

\* C7 witness: the matrix provider fails after the override lookup found nothing
C7_Witness ==
  /\ Decided
  /\ Resolved("getCustomPermission")
  /\ WasCalled("getPermissionMatrix")
  /\ EventOf("getPermissionMatrix").ret.kind = "threw"
  /\ outcome = Threw("getPermissionMatrix")

\* what hasPermission(userType, feature, requiredLevel, userId) yields with the
\* answers the collaborators gave during this call
HasPermissionWithAnswers(userType, feature, requiredLevel, userId) ==
  IF Truthy(userId) /\ ~Resolved("getCustomPermission")
  THEN Threw("getCustomPermission")
  ELSE IF Truthy(userId) /\ ValueOf("getCustomPermission") # Null
  THEN Returned(this_comparePermissionLevel(revision, ValueOf("getCustomPermission"),
                                            requiredLevel))
  ELSE IF ~Resolved("getPermissionMatrix")
  THEN Threw("getPermissionMatrix")
  ELSE Returned(this_comparePermissionLevel(revision,
                  EntryOrNone(ValueOf("getPermissionMatrix"), feature, userType),
                  requiredLevel))

\* authorize has ended after both resolvers answered
Authorized ==
  /\ pc = "done"
  /\ op.name = "authorize"
  /\ Resolved("getUserType")
  /\ Resolved("getUserId")

\* C8: authorize(capability, requiredLevel) returns hasPermission(T, capability,
\* requiredLevel, U), T and U being what getUserType() and getUserId() returned;
\* the override lookup is made for U.
C8_AuthorizeDelegates ==
  Authorized =>
    /\ frame = [userType |-> ValueOf("getUserType"), feature |-> op.args[1],
                requiredLevel |-> op.args[2], userId |-> ValueOf("getUserId")]
    /\ Truthy(ValueOf("getUserId")) <=> WasCalled("getCustomPermission")
    /\ WasCalled("getCustomPermission") =>
         EventOf("getCustomPermission").args = <<ValueOf("getUserId"), op.args[1]>>
    /\ outcome = HasPermissionWithAnswers(ValueOf("getUserType"), op.args[1],
                                          op.args[2], ValueOf("getUserId"))

\* C8 witness: the current user is a guest whose override grants ADMIN
C8_Witness ==
  /\ Authorized
  /\ ValueOf("getUserType") = "guest"
  /\ ValueOf("getUserId") = "user123"
  /\ Resolved("getCustomPermission")
  /\ ValueOf("getCustomPermission") = ADMIN
  /\ op.args[2] = ADMIN
  /\ outcome = Returned(TRUE)

\* validate has ended
Validated == pc = "done" /\ op.name = "validate"

\* C9: validate throws BadRequestError for every requiredLevel that is not one of
\* the five levels (empty and missing included) and returns for each of the five.
C9_Validate ==
  Validated =>
    IF op.args[2] \in PermissionLevelValues
    THEN outcome = Returned(Undefined)
    ELSE outcome = Threw("BadRequestError")

\* C9 witness: NONE passes for a capability the application does not know
C9_Witness ==
  /\ Validated
  /\ op.args = <<"nonExistentFeature", NONE>>
  /\ outcome = Returned(Undefined)

\* a get(k) ran right after set(k, v, ttl) with ttl > 0 or omitted, at the same time
GetRightAfterSet ==
  /\ last.op = "get"
  /\ last.prior.op = "set"
  /\ last.prior.at = last.at
  /\ last.prior.ttl = <<>> \/ last.prior.ttl[1] > 0

\* C10: cache round-trip.  get(k) right after set(k, v, ttl), ttl > 0 or omitted,
\* with no time elapsed and nothing in between, returns v.
C10_RoundTrip == GetRightAfterSet => last.ret = last.prior.value

\* C10 witness: a value set with a 300-second ttl, at a later time than the start, is read back
C10_Witness ==
  /\ GetRightAfterSet
  /\ last.prior.ttl = <<300>>
  /\ last.at > 0
  /\ last.ret = last.prior.value

----------------------------------------------------------------------------
(* The cache's operations, one step at a time *)

\* how long an entry lives, in milliseconds: its ttl in seconds, or 600 seconds
LifetimeMs(e) == IF "ttl" \in DOMAIN e THEN e.ttl * 1000 ELSE 600 * 1000

\* an entry is stored under k and its age is below its lifetime
Live(k) == k \in DOMAIN cache /\ now - cache[k].timestamp < LifetimeMs(cache[k])

\* prefix is the beginning of key
BeginsWith(key, prefix) == \E n \in 0..Len(key) : SubSeq(key, 1, n) = prefix

\* C11: the TTL rule of get.  Whatever operations and clock advances came before, get(k)
\* returns the stored value exactly when an entry is stored under k and now - storedAt is
\* below its lifetime (its ttl in seconds, 600 seconds when it has none); otherwise it
\* returns null.
C11_TtlRule ==
  [][last'.op = "get" =>
       IF Live(last'.key) THEN last'.ret = cache[last'.key].value ELSE last'.ret = Null]_vars

\* C11 witness: an entry without a ttl is read 300 seconds after it was set, when one with
\* a ttl of 300 seconds has just ended
C11_Witness ==
  /\ last.op = "get"
  /\ last.at = 300000
  /\ last.ret \in CacheValues
  /\ last.key \in DOMAIN cache
  /\ "ttl" \notin DOMAIN cache[last.key]

\* C12: a zero ttl reads as expired.  get(k) right after set(k, v, 0) returns null, even
\* when no time has passed between the two.
C12_ZeroTtl ==
  (last.op = "get" /\ last.prior.op = "set" /\ last.prior.ttl = <<0>>) => last.ret = Null

\* C12 witness: set(k, v, 0) and get(k) at the same instant, and the entry is gone
C12_Witness ==
  /\ last.op = "get"
  /\ last.prior.op = "set"
  /\ last.prior.ttl = <<0>>
  /\ last.prior.at = last.at
  /\ last.ret = Null
  /\ last.key \notin DOMAIN cache

\* C13: clearByPrefix(p) removes exactly the stored keys that begin with p.  Every other
\* key keeps its value, timestamp and ttl; the empty prefix empties the cache; a prefix no
\* key begins with leaves the cache as it was.
C13_ClearByPrefix ==
  [][last'.op = "clearByPrefix" =>
       /\ DOMAIN cache' = {k \in DOMAIN cache : ~BeginsWith(k, last'.prefix)}
       /\ \A k \in DOMAIN cache' : cache'[k] = cache[k]
       /\ last'.prefix = <<>> => cache' = EmptyCache
       /\ (\A k \in DOMAIN cache : ~BeginsWith(k, last'.prefix)) => cache' = cache]_vars

\* C13 witness: clearByPrefix("user_permissions_") took both users' keys and left the
\* settings key
C13_Witness ==
  /\ last.op = "clearByPrefix"
  /\ last.prefix = <<"user_permissions_">>
  /\ last.removed = {<<"user_permissions_", "1">>, <<"user_permissions_", "1", "0">>}
  /\ DOMAIN cache = {<<"user_settings_", "1">>}

\* C14: delete(k) and clear(k) remove the entry of k, be it live, expired or missing, and
\* change no other key; after them k has no entry until a set of k stores one.
C14_Delete ==
  [][/\ last'.op \in {"delete", "clear"} =>
          /\ last'.key \notin DOMAIN cache'
          /\ DOMAIN cache' = DOMAIN cache \ {last'.key}
          /\ \A k \in DOMAIN cache' : cache'[k] = cache[k]
     /\ \A k \in DOMAIN cache' \ DOMAIN cache : last'.op = "set" /\ last'.key = k]_vars

\* C14 witness: after the clock has moved 600 seconds, delete(k) removed the entry of k
\* and another key is still stored
C14_Witness ==
  /\ last.op = "delete"
  /\ last.removed = {last.key}
  /\ now = 600000
  /\ DOMAIN cache # {}

----------------------------------------------------------------------------
(* The permission cache, one step at a time *)

\* the key the permissions of user u are cached under
PermissionsKey(u) == <<"user_permissions_">> \o u

\* a step of getUserPermissions up to its return or its await
Asked == last'.op = "getUserPermissions"

\* the step in which loadUserPermissions resolved
Loaded == last'.op = "loadUserPermissions" /\ last'.kind = "returned"

\* C15: getUserPermissions(u) reads the cache first.  With a live entry under
\* "user_permissions_" + u it returns that entry's value and no loadUserPermissions is
\* begun; otherwise it begins one loadUserPermissions(u), and when that resolves the result
\* is stored under that key with a ttl of 300 seconds and returned.  A second call that
\* finds the entry live therefore returns what the first stored.
C15_CacheFirst ==
  [][/\ Asked =>
          LET k == PermissionsKey(last'.userId)
          IN IF Live(k)
             THEN /\ last'.kind = "returned"
                  /\ last'.ret = cache[k].value
                  /\ tasks' = tasks
                  /\ cache' = cache
             ELSE /\ last'.kind = "awaiting"
                  /\ tasks[last'.caller] = Idle
                  /\ tasks'[last'.caller].pc = "loading"
                  /\ tasks'[last'.caller].userId = last'.userId
                  /\ \A c \in Callers \ {last'.caller} : tasks'[c] = tasks[c]
                  /\ k \notin DOMAIN cache'
     /\ Loaded =>
          LET k == PermissionsKey(last'.userId)
          IN /\ tasks[last'.caller].userId = last'.userId
             /\ tasks'[last'.caller] = Idle
             /\ k \in DOMAIN cache'
             /\ cache'[k] = [value |-> last'.ret, timestamp |-> now, ttl |-> 300]]_vars

\* C15 witness: a call one millisecond before the 300 seconds end is answered with the Map
\* that a load stored at the start
C15_Witness ==
  /\ last.op = "getUserPermissions"
  /\ last.kind = "returned"
  /\ now = 299999
  /\ PermissionsKey(last.userId) \in DOMAIN cache
  /\ cache[PermissionsKey(last.userId)].timestamp = 0
  /\ cache[PermissionsKey(last.userId)].value = last.ret

\* C16: the Map getUserPermissions returns is a snapshot.  A caller that writes into a Map
\* it was given changes the permissions of no cache entry, so a later call answered from
\* the cache returns what was loaded.
C16_Snapshot ==
  [][last'.op = "mutate" =>
       \A u \in PermissionUserIds :
         PermissionsKey(u) \in DOMAIN cache =>
           heap'[cache'[PermissionsKey(u)].value] = heap[cache[PermissionsKey(u)].value]]_vars

\* C17, as stated: clearCache(X) with a non-empty X removes every key of the cache that
\* begins with "user_permissions_" + X.
C17_ByPrefix ==
  [][(last'.op = "clearCache" /\ last'.userId # <<>>) =>
       \A k \in DOMAIN cache' : ~BeginsWith(k, PermissionsKey(last'.userId))]_vars

\* C17, amended: clearCache(X) with a non-empty X removes the entry under the key
\* "user_permissions_" + X itself, so that a get of that key returns null afterwards, and
\* leaves every other key as it was, the longer keys that begin with that string too.
C17_ExactKey ==
  [][(last'.op = "clearCache" /\ last'.userId # <<>>) =>
       /\ DOMAIN cache' = DOMAIN cache \ {PermissionsKey(last'.userId)}
       /\ \A k \in DOMAIN cache' : cache'[k] = cache[k]
       /\ getReturns(cache', now, PermissionsKey(last'.userId)) = Null]_vars

\* C17 witness: clearCache("1") removed the entry of user "1" and the entry of user "10"
\* is still stored
C17_Witness ==
  /\ last.op = "clearCache"
  /\ last.userId = <<"1">>
  /\ last.removed = {PermissionsKey(<<"1">>)}
  /\ PermissionsKey(<<"1", "0">>) \in DOMAIN cache

\* C18: clearCache() without a userId removes every key that begins with
\* "user_permissions_", however many users are cached, and leaves every other key, such as
\* a "user_settings_" key, with the entry it had.
C18_ClearAll ==
  [][(last'.op = "clearCache" /\ last'.userId = <<>>) =>
       /\ DOMAIN cache' = {k \in DOMAIN cache : ~BeginsWith(k, <<"user_permissions_">>)}
       /\ \A k \in DOMAIN cache' : cache'[k] = cache[k]]_vars

\* C18 witness: clearCache() removed the entries of both users and the settings key is
\* still stored
C18_Witness ==
  /\ last.op = "clearCache"
  /\ last.userId = <<>>
  /\ last.removed = {PermissionsKey(u) : u \in PermissionUserIds}
  /\ SettingsKey \in DOMAIN cache

\* C20: no stale value after an invalidation.  However getUserPermissions(u) calls
\* interleave with clearCache(u) and clearCache(), once the invalidation is over the cache
\* holds no permissions whose loadUserPermissions(u) had begun before it, and so no later
\* call is answered from the cache with them.
C20_NoStale == staleKeys = {}

----------------------------------------------------------------------------
(* The cache under callers that take turns *)

\* the entry set(key, value, ttl) writes at time t, whole
CompleteEntry(value, t, ttlArg) ==
  IF ttlArg = <<>>
  THEN [value |-> value, timestamp |-> t]
  ELSE [value |-> value, timestamp |-> t, ttl |-> ttlArg[1]]

\* C19: the cache's operations are atomic with respect to each other.  Each step of any
\* interleaving of get, set, delete, clear and clearByPrefix is one whole operation on
\* the cache the step before left: an entry appears or changes only in a set of its key,
\* which writes value, timestamp and ttl together, a get removes at most the key it reads,
\* and no step leaves an entry a later get or clearByPrefix could see half written.
C19_Atomic ==
  [][/\ \A k \in DOMAIN cache' :
          (k \notin DOMAIN cache \/ cache'[k] # cache[k]) =>
            /\ last'.op = "set"
            /\ last'.key = k
            /\ cache'[k] = CompleteEntry(last'.value, now, last'.ttl)
     /\ last'.op = "set" =>
          /\ DOMAIN cache' = DOMAIN cache \cup {last'.key}
          /\ cache'[last'.key] = CompleteEntry(last'.value, now, last'.ttl)
     /\ last'.op = "get" =>
          /\ DOMAIN cache \ DOMAIN cache' \subseteq {last'.key}
          /\ last'.ret \in {Null} \cup {cache[k].value : k \in DOMAIN cache}
     /\ last'.op = "tick" => cache' = cache]_vars

\* C19 witness: after the clock has moved, a set has replaced one entry whole while another
\* key keeps an entry written before
C19_Witness ==
  /\ last.op = "set"
  /\ last.at > 0
  /\ cache[last.key] = CompleteEntry(last.value, last.at, last.ttl)
  /\ \E k \in DOMAIN cache : k # last.key /\ cache[k].timestamp = 0

----------------------------------------------------------------------------
(* The engine's calls, looked at again *)

\* getPermissionMatrix was invoked in this call: it is awaited, or it has answered
MatrixConsulted == pc = "getPermissionMatrix" \/ WasCalled("getPermissionMatrix")

\* getCustomPermission was invoked in this call: it is awaited, or it has answered
OverrideConsulted == pc = "getCustomPermission" \/ WasCalled("getCustomPermission")

\* getCustomPermission has returned a level in this call
OverrideFound ==
  /\ Resolved("getCustomPermission")
  /\ ValueOf("getCustomPermission") \in PermissionLevelValues

\* C21: in the override branch the matrix is never consulted.  In a call in which
\* getCustomPermission(u, c) returned a level, getPermissionMatrix is not invoked and the
\* call has ended with a decision; and when getPermissionMatrix is invoked, the override
\* lookup of the same call has returned null before, or was skipped for want of a userId.
C21_MatrixNotConsulted ==
  /\ OverrideFound =>
       /\ ~MatrixConsulted
       /\ pc = "done"
       /\ outcome.kind = "returned"
  /\ MatrixConsulted =>
       IF WasCalled("getCustomPermission")
       THEN /\ Resolved("getCustomPermission")
            /\ ValueOf("getCustomPermission") = Null
            /\ \A i \in Calls("getCustomPermission"), j \in Calls("getPermissionMatrix") : i < j
       ELSE ~Truthy(frame.userId)

\* C21 witness: authorize ended with a decision from the override of the current user, and
\* the only collaborators that were called are the two resolvers and the override lookup
C21_Witness ==
  /\ pc = "done"
  /\ op.name = "authorize"
  /\ OverrideFound
  /\ Len(log) = 3
  /\ outcome = Returned(FALSE)

\* the five levels below and above a level, by position
LevelsBelow(level) == {l \in PermissionLevelValues : Position(l) < Position(level)}
LevelsAbove(level) == {l \in PermissionLevelValues : Position(l) > Position(level)}

\* a hasPermission call has returned a boolean for one of the five levels
DecidedAtLevel ==
  /\ Decided
  /\ outcome.kind = "returned"
  /\ frame.requiredLevel \in PermissionLevelValues

\* what the call yields for another required level, the answers being the same
WithRequired(level) ==
  HasPermissionWithAnswers(frame.userType, frame.feature, level, frame.userId)

\* C23: decisions are monotone in the required level.  With the answers of the
\* collaborators fixed, a call that returns true for R returns true for every level below
\* R, one that returns false for R returns false for every level above R, and with NONE
\* required the answer is true.
C23_Monotone ==
  DecidedAtLevel =>
    /\ outcome = WithRequired(frame.requiredLevel)
    /\ outcome = Returned(TRUE) =>
         \A l \in LevelsBelow(frame.requiredLevel) : WithRequired(l) = Returned(TRUE)
    /\ outcome = Returned(FALSE) =>
         \A l \in LevelsAbove(frame.requiredLevel) : WithRequired(l) = Returned(FALSE)
    /\ frame.requiredLevel = NONE => outcome = Returned(TRUE)

\* C23 witness: the matrix gives EDIT to the class, and DELETE is refused
C23_Witness ==
  /\ DecidedAtLevel
  /\ NoOverride
  /\ EntryOrNone(ValueOf("getPermissionMatrix"), frame.feature, frame.userType) = EDIT
  /\ frame.requiredLevel = DELETE
  /\ outcome = Returned(FALSE)
  /\ WithRequired(EDIT) = Returned(TRUE)

\* the userId the call decides for is undefined or the empty string
NoUserId == frame.userId \in {Undefined, ""}

\* C26: the override provider is queried exactly when a non-empty userId is supplied.
\* A hasPermission call with userId undefined or empty never calls getCustomPermission
\* and decides from the matrix alone, authorize for an anonymous caller does the same,
\* and a call with a non-empty userId does query it.
C26_OverrideQueried ==
  /\ OverrideConsulted => ~NoUserId
  /\ (op.name = "hasPermission" /\ pc # "idle") =>
       (OverrideConsulted <=> op.args[4] \notin {Undefined, ""})
  /\ (op.name = "authorize" /\ Resolved("getUserId")) =>
       (OverrideConsulted <=> ValueOf("getUserId") \notin {Undefined, ""})
  /\ (Decided /\ NoUserId /\ outcome.kind = "returned") =>
       /\ Resolved("getPermissionMatrix")
       /\ outcome = Returned(this_comparePermissionLevel(revision,
                      EntryOrNone(ValueOf("getPermissionMatrix"), frame.feature,
                                  frame.userType),
                      frame.requiredLevel))

\* C26 witness: authorize for an anonymous caller is decided by the matrix, the override
\* provider unasked
C26_Witness ==
  /\ pc = "done"
  /\ op.name = "authorize"
  /\ Resolved("getUserId")
  /\ ValueOf("getUserId") = Undefined
  /\ ~WasCalled("getCustomPermission")
  /\ Resolved("getPermissionMatrix")
  /\ outcome = Returned(TRUE)

\* a step of a hasPermission or authorize call
EngineStep == <<pc, op, frame, log, outcome>>' # <<pc, op, frame, log, outcome>>

\* C22: hasPermission and authorize change no state.  No step of such a call, be it ending
\* well or with a failure, changes the permission cache or the Maps it holds, and the
\* matrix the provider returned stays in the call's record as it was returned.
C22_ReadOnly ==
  [][EngineStep =>
       /\ cache' = cache
       /\ heap' = heap
       /\ pc' # "idle" =>
            \A i \in DOMAIN log : i \in DOMAIN log' /\ log'[i] = log[i]]_vars

\* C22 witness: a call ended with a decision from the matrix while the cache holds the
\* permissions of a user
C22_Witness ==
  /\ Decided
  /\ Resolved("getPermissionMatrix")
  /\ outcome.kind = "returned"
  /\ cacheKeyOf(CachedUserId) \in DOMAIN cache

----------------------------------------------------------------------------
(* The cache's entries over time *)

\* C25: set(k, v, ttl) overwrites without condition and whole.  Whatever k held before,
\* the entry then holds v, its timestamp is the time of this set and its lifetime is the
\* ttl of this call, 600 seconds when the call gives none, never the ttl of the entry it
\* replaces; no other key changes.
C25_Overwrite ==
  [][last'.op = "set" =>
       LET k == last'.key
       IN /\ k \in DOMAIN cache'
          /\ cache'[k].value = last'.value
          /\ cache'[k].timestamp = now
          /\ IF last'.ttl = <<>>
             THEN "ttl" \notin DOMAIN cache'[k] /\ LifetimeMs(cache'[k]) = 600 * 1000
             ELSE cache'[k].ttl = last'.ttl[1] /\ LifetimeMs(cache'[k]) = last'.ttl[1] * 1000
          /\ \A j \in DOMAIN cache' \ {k} : j \in DOMAIN cache /\ cache'[j] = cache[j]
          /\ \A j \in DOMAIN cache : j \in DOMAIN cache']_vars

\* C25 witness: after the clock has moved, a set without a ttl has replaced an entry that
\* had one, and the entry has none now
C25_Witness ==
  /\ last.op = "set"
  /\ last.ttlDropped
  /\ last.at > 0
  /\ cache[last.key].timestamp = last.at
  /\ "ttl" \notin DOMAIN cache[last.key]

\* the age of the entry under k has reached its lifetime
Expired(k) == k \in DOMAIN cache /\ now - cache[k].timestamp >= LifetimeMs(cache[k])

\* C29: reads do not extend an entry's life.  A get that returns a value leaves the cache,
\* and so the entry's timestamp and ttl, as they were; no step but a set changes the
\* timestamp or ttl of an entry; a get of a key whose entry has reached its lifetime
\* returns null and removes the entry; and a key without an entry gets one only in a set
\* of that key, wherever the clock goes.
C29_NoExtension ==
  [][/\ last'.op = "get" =>
          /\ last'.ret # Null => cache' = cache
          /\ Expired(last'.key) => last'.ret = Null /\ last'.key \notin DOMAIN cache'
     /\ last'.op # "set" =>
          \A k \in DOMAIN cache' : k \in DOMAIN cache /\ cache'[k] = cache[k]
     /\ last'.op = "set" =>
          \A k \in DOMAIN cache' \ {last'.key} : k \in DOMAIN cache /\ cache'[k] = cache[k]]_vars

\* C29 witness: the clock was set back after an entry was stored, a get of its key returns
\* the value, and the entry still has the timestamp of its set
C29_Witness ==
  /\ last.op = "get"
  /\ last.ret \in CacheValues
  /\ last.at = 0
  /\ ticks = MaxTicks
  /\ cache[last.key].timestamp > 0

----------------------------------------------------------------------------
(* The permission cache over time *)

\* the permissions of u were stored 300 seconds ago or earlier
StoredLongAgo(u) ==
  /\ PermissionsKey(u) \in DOMAIN cache
  /\ now - cache[PermissionsKey(u)].timestamp >= 300 * 1000

\* C24: bounded staleness of cached permissions.  getUserPermissions(u) never returns from
\* the cache permissions stored 300 seconds or more earlier: from that moment a call drops
\* the entry and calls loadUserPermissions(u) again, and what that returns is stored with
\* the time of its return.
C24_BoundedStaleness ==
  [][/\ (Asked /\ last'.kind = "returned") =>
          /\ ~StoredLongAgo(last'.userId)
          /\ now - cache[PermissionsKey(last'.userId)].timestamp < 300 * 1000
     /\ (Asked /\ StoredLongAgo(last'.userId)) =>
          /\ last'.kind = "awaiting"
          /\ tasks'[last'.caller].pc = "loading"
          /\ tasks'[last'.caller].userId = last'.userId
          /\ PermissionsKey(last'.userId) \notin DOMAIN cache'
     /\ Loaded =>
          /\ cache'[PermissionsKey(last'.userId)].value = last'.ret
          /\ cache'[PermissionsKey(last'.userId)].timestamp = now]_vars

\* C24 witness: a call made 300 seconds after the permissions were stored has dropped the
\* entry and awaits the loader
C24_Witness ==
  /\ last.op = "getUserPermissions"
  /\ last.kind = "awaiting"
  /\ now = 300000
  /\ tasks[last.caller].pc = "loading"
  /\ tasks[last.caller].evicted
  /\ PermissionsKey(last.userId) \notin DOMAIN cache

\* C27: per-user isolation of cached permissions.  In every state the value stored under a
\* "user_permissions_" key is a Map that loadUserPermissions returned for the user of that
\* key, and a call of getUserPermissions(u) that has just returned gave a Map loaded for u.
C27_Isolation ==
  /\ \A k \in DOMAIN cache :
       BeginsWith(k, <<"user_permissions_">>) =>
         /\ cache[k].value \in DOMAIN loadedFor
         /\ k = PermissionsKey(loadedFor[cache[k].value])
  /\ (last.op \in {"getUserPermissions", "loadUserPermissions"} /\ last.kind = "returned") =>
       /\ last.ret \in DOMAIN loadedFor
       /\ loadedFor[last.ret] = last.userId

\* C27 witness: the permissions of both users are cached, each its own Map, and the call for
\* user "10" was answered from the cache
C27_Witness ==
  /\ last.op = "getUserPermissions"
  /\ last.kind = "returned"
  /\ last.userId = <<"1", "0">>
  /\ PermissionsKey(<<"1">>) \in DOMAIN cache
  /\ cache[PermissionsKey(<<"1">>)].value # last.ret

\* the step in which loadUserPermissions rejected
Failed == last'.op = "loadUserPermissions" /\ last'.kind = "threw"

\* C28, as stated: when loadUserPermissions(u) fails during getUserPermissions(u), the
\* failure reaches the caller, the cache is as it was before the call, and the next
\* getUserPermissions(u) calls the loader again.
C28_CacheAsBefore ==
  [][Failed =>
       /\ tasks'[last'.caller] = Idle
       /\ cache' = cache
       /\ ~last'.evicted
       /\ ~Live(PermissionsKey(last'.userId))]_vars

\* C28, amended: when loadUserPermissions(u) fails the failure reaches the caller and the
\* call has stored nothing.  The failing step leaves the cache and its Maps as they are;
\* the lookup the call began with changed the cache only by removing the entry of u, and
\* that only when it had expired; and a later call that finds no live entry of u calls the
\* loader again.
C28_NothingStored ==
  [][/\ Failed =>
          /\ tasks[last'.caller].userId = last'.userId
          /\ tasks'[last'.caller] = Idle
          /\ cache' = cache
          /\ heap' = heap
     /\ (Asked /\ last'.kind = "awaiting") =>
          /\ \A k \in DOMAIN cache' : k \in DOMAIN cache /\ cache'[k] = cache[k]
          /\ DOMAIN cache \ DOMAIN cache' \subseteq {PermissionsKey(last'.userId)}
          /\ tasks'[last'.caller].evicted <=> Expired(PermissionsKey(last'.userId))
          /\ tasks'[last'.caller].evicted <=> DOMAIN cache' # DOMAIN cache
     /\ (Asked /\ ~Live(PermissionsKey(last'.userId))) => last'.kind = "awaiting"]_vars

\* C28 witness: the load of a user failed after the call had removed the expired entry of
\* that user, and the entry of the other user is still stored
C28_Witness ==
  /\ last.op = "loadUserPermissions"
  /\ last.kind = "threw"
  /\ last.evicted
  /\ tasks[last.caller] = Idle
  /\ PermissionsKey(last.userId) \notin DOMAIN cache
  /\ \E u \in PermissionUserIds : PermissionsKey(u) \in DOMAIN cache

\* the keys of the cache other than the key of the permissions of user u
OtherKeys(u) == DOMAIN cache \ {PermissionsKey(u)}

\* C30: clearCache(X) with a non-empty X leaves the others alone.  Every key other than
\* "user_permissions_" + X is still stored afterwards, with the value, the timestamp and
\* the ttl it had, and a Map stored under such a key has the content it had: the keys of
\* users whose id begins with X and the keys that hold no permissions included.  No key is
\* added.
C30_OthersKept ==
  [][(last'.op = "clearCache" /\ last'.userId # <<>>) =>
       /\ OtherKeys(last'.userId) \subseteq DOMAIN cache'
       /\ DOMAIN cache' \subseteq DOMAIN cache
       /\ \A k \in OtherKeys(last'.userId) :
            /\ cache'[k] = cache[k]
            /\ cache[k].value \in DOMAIN heap =>
                 /\ cache[k].value \in DOMAIN heap'
                 /\ heap'[cache[k].value] = heap[cache[k].value]]_vars

\* C30 witness: clearCache("1") removed the entry of user "1" while the permissions of
\* user "10" and the settings key were stored, and both are still stored
C30_Witness ==
  /\ last.op = "clearCache"
  /\ last.userId = <<"1">>
  /\ PermissionsKey(<<"1">>) \in last.removed
  /\ PermissionsKey(<<"1", "0">>) \in DOMAIN cache
  /\ cache[PermissionsKey(<<"1", "0">>)].value \in DOMAIN heap
  /\ SettingsKey \in DOMAIN cache
  /\ cache[SettingsKey].value = SettingsValue

====
